---- MODULE Spec2Model ----
(***************************************************************************)
(* Model of the boost build tool (dloez/boost): the structural validator   *)
(* (boostbuild/validations.py), the helpers (boostbuild/utils.py,          *)
(* boostbuild/errors.py) and the context builder with its Command and      *)
(* Variable runtime (boostbuild/context.py).                               *)
(*                                                                         *)
(* Python strings are sequences of one-character strings; literal pieces   *)
(* of message templates are single elements.  A Python dict is a sequence  *)
(* of entries in insertion order.  A function result is a record           *)
(* [kind, val]: kind "ret" for a returned string, "data" for the parsed    *)
(* file, "raise" for an exception that leaves the function.                *)
(***************************************************************************)
EXTENDS Integers, Sequences, FiniteSets, TLC

VARIABLES cfg, sel, pc, vres, ctx, lastCall, ncalls, input, output

vars == <<cfg, sel, pc, vres, ctx, lastCall, ncalls, input, output>>

-----------------------------------------------------------------------------
(* Bounds of the model                                                     *)

MaxLines == 2

MaxDecls == 2

MaxCalls == 2

RecursionLimit == 4

\* characters of a text handed to find_variables_in
MaxText == 4

\* characters before and after the reference on a hinted line
MaxPad == 2

\* tokens an attributes value is made of
MaxTokens == 3

-----------------------------------------------------------------------------
(* Python string primitives                                                *)

NL == "\n"

Whitespace == {" ", NL, "\t"}

Min(S) == CHOOSE x \in S : \A y \in S : x <= y

Range(s) == {s[i] : i \in 1..Len(s)}

RECURSIVE Concat(_)
Concat(ss) == IF ss = <<>> THEN <<>> ELSE Head(ss) \o Concat(Tail(ss))

RECURSIVE Join(_, _)
Join(sep, ss) ==
    IF ss = <<>> THEN <<>>
    ELSE IF Len(ss) = 1 THEN ss[1]
    ELSE ss[1] \o sep \o Join(sep, Tail(ss))

\* str.strip(): drop leading and trailing whitespace
Strip(s) ==
    LET keep == {i \in 1..Len(s) : s[i] \notin Whitespace}
    IN  IF keep = {} THEN <<>>
        ELSE SubSeq(s, Min(keep), CHOOSE i \in keep : \A j \in keep : j <= i)

\* str.split(sep) for a one-character separator: never returns an empty list
RECURSIVE Split(_, _)
Split(s, sep) ==
    LET hits == {i \in 1..Len(s) : s[i] = sep}
    IN  IF hits = {} THEN <<s>>
        ELSE <<SubSeq(s, 1, Min(hits) - 1)>>
                 \o Split(SubSeq(s, Min(hits) + 1, Len(s)), sep)

\* positions (0-based, as in Python) where sub occurs in s
Occurrences(s, sub) ==
    {i \in 0..(Len(s) - Len(sub)) : SubSeq(s, i + 1, i + Len(sub)) = sub}

\* `sub in s` for strings
Contains(s, sub) == Occurrences(s, sub) # {}

\* str.index(sub); -1 stands for the ValueError Python raises
Index(s, sub) == IF Contains(s, sub) THEN Min(Occurrences(s, sub)) ELSE -1

StartsWith(s, c) == Len(s) > 0 /\ s[1] = c

EndsWith(s, c) == Len(s) > 0 /\ s[Len(s)] = c

Ret(s) == [kind |-> "ret", val |-> s]

Raise(e) == [kind |-> "raise", val |-> <<e>>]

Data == [kind |-> "data", val |-> <<>>]

\* str.format with positional {} fields: tpl is the template cut at its fields
RECURSIVE Interleave(_, _)
Interleave(tpl, args) ==
    IF Len(tpl) = 1 THEN <<tpl[1]>>
    ELSE <<tpl[1]>> \o args[1] \o Interleave(Tail(tpl), Tail(args))

Format(tpl, args) ==
    IF Len(args) < Len(tpl) - 1 THEN Raise("IndexError")
    ELSE Ret(Interleave(tpl, args))

-----------------------------------------------------------------------------
(* boostbuild/utils.py                                                     *)

\* one match of the pattern (?<={)(.*?)(?=}) searched from pos (0-based):
\* start s follows a "{", the lazy body stops at the first "}" and "." never
\* crosses a line break; an empty match is refused right where the previous
\* empty match ended
ScanMatches(content, pos, mustAdvance) ==
    {se \in (pos..Len(content)) \X (pos..(Len(content) - 1)) :
        /\ se[1] >= 1
        /\ se[1] <= se[2]
        /\ content[se[1]] = "{"
        /\ content[se[2] + 1] = "}"
        /\ \A k \in (se[1] + 1)..se[2] : content[k] # NL
        /\ ~(mustAdvance /\ se[1] = pos /\ se[2] = se[1])}

RECURSIVE ScanFrom(_, _, _)
ScanFrom(content, pos, mustAdvance) ==
    LET ms == ScanMatches(content, pos, mustAdvance)
    IN  IF ms = {} THEN <<>>
        ELSE LET s == Min({m[1] : m \in ms})
                 e == Min({m[2] : m \in {x \in ms : x[1] = s}})
             IN  <<SubSeq(content, s + 1, e)>> \o ScanFrom(content, e, e = s)

find_variables_in(content) == ScanFrom(content, 0, FALSE)

-----------------------------------------------------------------------------
(* boostbuild/errors.py                                                    *)

MISSING_BOOST_SECTION == <<"the used boost.yaml file does not have a 'boost' section">>

EMPTY_BOOST_SECTION == <<"the used boost.yaml file 'boost' section is empty">>

BAD_FORMAT_BOOST_SECTION == <<"the 'boost' section is bad formatted">>

BAD_FORMAT_VARS_SECTION == <<"the 'vars' section is bad formatted">>

FILE_FOLDER_DOESNT_EXIST == <<"the given file/folder '", "' does not exist">>

MISSING_TARGET == <<"the used boost target '", "' is missing on the 'boost' section">>

MISSING_VARIABLE ==
    <<"the variable '",
      "' is missing on the 'vars' section and it was required by the '",
      "' '", "'">>

SELF_VAR_REQUEST == <<"the variable '", "' is requesting itself, which is not allowed">>

UNKOWN_KEY == <<"Unkown key '", "'">>

UNSUPPORTED_VAR_ATTRIBUTE == <<"the attribute '", "' on the var '", "' is not supported">>

BAD_FORMAT_ATTRIBUTES == <<"the attributes '", "' on the variable '", "' are bad formatted">>

NOT_ALLOWED_CHARACTERS ==
    <<"the '", "' '", "' has not-allowed caharacters, allowed characters: '", "'">>

UNSUPORTED_OS == <<"the command '", "' does not support the current used OS">>

\* the marker line is as long as the stripped source line; the caret is put
\* at index `position` only if the loop reaches that index
HintMarker(error, position) ==
    [i \in 1..Len(Strip(error \o <<NL>>)) |-> IF i - 1 # position THEN "-" ELSE "^"]

build_error_hinting(error, position, message) ==
    error \o <<NL>> \o HintMarker(error, position) \o <<NL>> \o message

-----------------------------------------------------------------------------
(* The parsed boost file.                                                  *)
(*   boost.kind: "absent" (no key), "str", "list" or "dict"; a dict keeps  *)
(*   its targets in `items` as <<name, commands>> in declaration order.    *)
(*   vars.kind: "absent", "none", "str" or "list"; a list keeps its        *)
(*   declarations in `decls`, each a dict given as a sequence of entries   *)
(*   [k, v, str] (str is FALSE for a value that is not a Python string).   *)

Keys(d) == {d[i].k : i \in 1..Len(d)}

HasKey(d, key) == key \in Keys(d)

\* d[key]
Get(d, key) == d[CHOOSE i \in 1..Len(d) : d[i].k = key]

\* dict equality ignores insertion order
DictEq(d1, d2) == Range(d1) = Range(d2)

TargetNames(boost) == [i \in 1..Len(boost.items) |-> boost.items[i][1]]

HasTarget(boost, name) == \E i \in 1..Len(boost.items) : boost.items[i][1] = name

TargetText(boost, name) ==
    boost.items[CHOOSE i \in 1..Len(boost.items) : boost.items[i][1] = name][2]

\* truth value of boost_data["boost"]
BoostTruthy(boost) ==
    CASE boost.kind = "str" -> boost.str # <<>>
      [] boost.kind = "list" -> boost.elems # <<>>
      [] boost.kind = "dict" -> boost.items # <<>>
      [] OTHER -> FALSE

\* truth value of boost_data["vars"]
VarsTruthy(vs) ==
    CASE vs.kind = "str" -> vs.str # <<>>
      [] vs.kind = "list" -> vs.decls # <<>>
      [] OTHER -> FALSE

AsciiLetters ==
    {"a","b","c","d","e","f","g","h","i","j","k","l","m",
     "n","o","p","q","r","s","t","u","v","w","x","y","z",
     "A","B","C","D","E","F","G","H","I","J","K","L","M",
     "N","O","P","Q","R","S","T","U","V","W","X","Y","Z"}

ATTRIBUTES_WHITELIST == AsciiLetters \cup {","}

VARIABLES_TARGETS_WHITELIST == AsciiLetters \cup {"_", "-"}

WhitelistText == <<"abcdefghijklmnopqrstuvwxyzABCDEFGHIJKLMNOPQRSTUVWXYZ_-">>

AttributesWhitelistText == <<"abcdefghijklmnopqrstuvwxyzABCDEFGHIJKLMNOPQRSTUVWXYZ,">>

SECRET == <<"s","e","c","r","e","t">>

EXEC == <<"e","x","e","c">>

SUPPORTTED_ATTRIBUTES == <<SECRET, EXEC>>

ATTRIBUTES == <<"a","t","t","r","i","b","u","t","e","s">>

-----------------------------------------------------------------------------
(* boostbuild/utils.py: targets                                            *)

get_boost_target(boost, boost_target) ==
    IF boost_target # <<>> THEN boost_target ELSE boost.items[1][1]

\* every reference of one target, lines top to bottom, left to right
RefsOfTarget(item) ==
    LET commands == Split(Strip(item[2]), NL)
    IN  Concat([i \in 1..Len(commands) |->
                  LET found == find_variables_in(commands[i])
                  IN  [j \in 1..Len(found) |->
                         [var |-> found[j], target |-> item[1], command |-> commands[i]]]])

\* keep the first appearance of every variable
RECURSIVE FirstAppearances(_, _)
FirstAppearances(refs, acc) ==
    IF refs = <<>> THEN acc
    ELSE IF \E i \in 1..Len(acc) : acc[i].var = Head(refs).var
         THEN FirstAppearances(Tail(refs), acc)
         ELSE FirstAppearances(Tail(refs), Append(acc, Head(refs)))

get_required_vars_dict(targets) ==
    FirstAppearances(Concat([i \in 1..Len(targets) |-> RefsOfTarget(targets[i])]), <<>>)

\* dict.pop(key, None) on the ordered dict of required variables
Pop(required, key) == SelectSeq(required, LAMBDA r : r.var # key)

-----------------------------------------------------------------------------
(* boostbuild/validations.py                                               *)

validate_missing_boost_section(data) ==
    IF data.boost.kind = "absent" THEN Ret(MISSING_BOOST_SECTION) ELSE Ret(<<>>)

validate_empty_boost_section(data) ==
    IF ~BoostTruthy(data.boost) THEN Ret(EMPTY_BOOST_SECTION) ELSE Ret(<<>>)

\* .items() exists on a dict only
validate_boost_targets_chars(data) ==
    IF data.boost.kind # "dict" THEN Raise("AttributeError")
    ELSE LET names == TargetNames(data.boost)
             bad == {i \in 1..Len(names) :
                        \E c \in Range(names[i]) : c \notin VARIABLES_TARGETS_WHITELIST}
         IN  IF bad = {} THEN Ret(<<>>)
             ELSE Format(NOT_ALLOWED_CHARACTERS,
                         <<<<"target">>, names[Min(bad)], WhitelistText>>)

validate_boost_section_format(data) ==
    IF data.boost.kind # "dict" THEN Ret(BAD_FORMAT_BOOST_SECTION) ELSE Ret(<<>>)

\* `boost_target not in boost_data["boost"]`: key, substring or element test
InBoost(boost, boost_target) ==
    CASE boost.kind = "dict" -> HasTarget(boost, boost_target)
      [] boost.kind = "str" -> Contains(boost.str, boost_target)
      [] boost.kind = "list" -> boost_target \in Range(boost.elems)
      [] OTHER -> FALSE

validate_missing_boost_target(data, boost_target) ==
    IF ~InBoost(data.boost, boost_target)
    THEN Format(MISSING_TARGET, <<boost_target>>)
    ELSE Ret(<<>>)

validate_attributes_format(attributes) ==
    IF ~attributes.str
    THEN Format(BAD_FORMAT_ATTRIBUTES, <<attributes.v, <<"attributes">>>>)
    ELSE Ret(<<>>)

\* a charset check that lets every character pass
AttributesCharsUnchecked(attributes) == Ret(<<>>)

validate_attributes_chars(attributes) ==
    IF \E c \in Range(attributes.v) : c \notin ATTRIBUTES_WHITELIST
    THEN Format(NOT_ALLOWED_CHARACTERS,
                <<<<"attributes">>, attributes.v, AttributesWhitelistText>>)
    ELSE Ret(<<>>)

validate_supported_attributes(attributes) ==
    LET attrs == Split(attributes.v, ",")
        bad == {i \in 1..Len(attrs) : attrs[i] \notin Range(SUPPORTTED_ATTRIBUTES)}
    IN  IF bad = {} THEN Ret(<<>>)
        ELSE Format(UNSUPPORTED_VAR_ATTRIBUTE, <<attrs[Min(bad)], <<"attributes">>>>)

\* ORDER IS IMPORTANT AND MUST BE PRESERVED
attribute_validations ==
    <<"validate_attributes_format", "validate_attributes_chars",
      "validate_supported_attributes">>

RunAttributeValidation(name, attributes) ==
    CASE name = "validate_attributes_format" -> validate_attributes_format(attributes)
      [] name = "validate_attributes_chars" -> validate_attributes_chars(attributes)
      [] OTHER -> validate_supported_attributes(attributes)

RECURSIVE ValidateAttributes(_, _)
ValidateAttributes(names, attributes) ==
    IF names = <<>> THEN Ret(<<>>)
    ELSE LET Decide(error) ==
                 IF error.kind = "raise" \/ error.val # <<>> THEN error
                 ELSE ValidateAttributes(Tail(names), attributes)
         IN  Decide(RunAttributeValidation(Head(names), attributes))

\* build_error_hinting(line, line.index("{" + name + "}"), message)
HintAt(line, name, message) ==
    LET position == Index(line, <<"{">> \o name \o <<"}">>)
    IN  IF position = -1 THEN Raise("ValueError")
        ELSE IF message.kind = "raise" THEN message
        ELSE Ret(build_error_hinting(line, position, message.val))

\* found_var_value.index("{" + rvar + "}") inside the self request report:
\* None has no index attribute, while a list has one and does not hold the
\* reference
SelfHint(entry, rvar) ==
    IF ~entry.str /\ entry.v = <<"None">> THEN Raise("AttributeError")
    ELSE IF ~entry.str THEN Raise("ValueError")
    ELSE HintAt(entry.v, rvar, Format(SELF_VAR_REQUEST, <<rvar>>))

\* None, the value next() falls back to
None == [none |-> TRUE, d |-> <<>>]

\* next((var for boost_var in variables_section if rvar in boost_var), None):
\* the generator yields `var`, the declaration being checked, whenever some
\* declaration has the key rvar
FoundVariable(variables_section, var, rvar) ==
    IF \E i \in 1..Len(variables_section) : HasKey(variables_section[i], rvar)
    THEN [none |-> FALSE, d |-> var]
    ELSE None

\* `found_variable in checked_vars`
InChecked(found, checked) ==
    \E j \in 1..Len(checked) :
        /\ checked[j].none = found.none
        /\ (found.none \/ DictEq(checked[j].d, found.d))

\* the loop over the references found in one declared value; `go` tells
\* whether validate_variables continues after it
RECURSIVE CheckInnerRefs(_, _, _, _, _, _)
CheckInnerRefs(variables_section, var, variable, value, rvars, checked) ==
    IF rvars = <<>> THEN [go |-> TRUE, res |-> Ret(<<>>), checked |-> checked]
    ELSE
      LET rvar == Head(rvars)
          found == FoundVariable(variables_section, var, rvar)
          selfKeys == {i \in 1..Len(found.d) : found.d[i].k = rvar}
      IN  IF InChecked(found, checked)
          THEN CheckInnerRefs(variables_section, var, variable, value,
                              Tail(rvars), checked)
          ELSE IF found.none \/ found.d = <<>>
          THEN [go |-> FALSE, checked |-> Append(checked, found),
                res |-> HintAt(value, rvar,
                               Format(MISSING_VARIABLE,
                                      <<rvar, <<"variable">>, variable>>))]
          ELSE IF selfKeys # {}
          THEN [go |-> FALSE, checked |-> Append(checked, found),
                res |-> SelfHint(found.d[Min(selfKeys)], rvar)]
          ELSE CheckInnerRefs(variables_section, var, variable, value,
                              Tail(rvars), Append(checked, found))

\* the loop over the entries of one declaration, from entry ei on
RECURSIVE CheckEntries(_, _, _, _, _)
CheckEntries(variables_section, var, ei, single_key_found, st) ==
    IF ei > Len(var) THEN [go |-> TRUE, res |-> Ret(<<>>), st |-> st]
    ELSE
      LET entry == var[ei]
      IN  IF entry.k = ATTRIBUTES
          THEN LET Decide(error) ==
                       IF error.kind = "raise" \/ error.val # <<>>
                       THEN [go |-> FALSE, res |-> error, st |-> st]
                       ELSE CheckEntries(variables_section, var, ei + 1,
                                         single_key_found, st)
               IN  Decide(ValidateAttributes(attribute_validations,
                                             [v |-> entry.v, str |-> entry.str]))
          ELSE IF single_key_found
          THEN [go |-> FALSE, res |-> Format(UNKOWN_KEY, <<entry.k>>), st |-> st]
          ELSE IF \E c \in Range(entry.k) : c \notin VARIABLES_TARGETS_WHITELIST
          THEN [go |-> FALSE, st |-> st,
                res |-> Format(NOT_ALLOWED_CHARACTERS,
                               <<<<"variable">>, entry.k, WhitelistText>>)]
          ELSE IF ~entry.str
          THEN [go |-> FALSE, res |-> Raise("TypeError"), st |-> st]
          ELSE
            LET Continue(inner) ==
                    LET st2 == [checked |-> inner.checked,
                                required |-> Pop(st.required, entry.k)]
                    IN  IF ~inner.go THEN [go |-> FALSE, res |-> inner.res, st |-> st2]
                        ELSE CheckEntries(variables_section, var, ei + 1, TRUE, st2)
            IN  Continue(CheckInnerRefs(variables_section, var, entry.k, entry.v,
                                        find_variables_in(entry.v), st.checked))

\* the loop over the declarations of the vars section, from declaration di on
RECURSIVE CheckDeclarations(_, _, _)
CheckDeclarations(variables_section, di, st) ==
    IF di > Len(variables_section) THEN [go |-> TRUE, res |-> Ret(<<>>), st |-> st]
    ELSE LET Continue(one) ==
                 IF ~one.go THEN one
                 ELSE CheckDeclarations(variables_section, di + 1, one.st)
         IN  Continue(CheckEntries(variables_section, variables_section[di], 1, FALSE, st))

validate_variables(data, boost_target0) ==
    IF data.boost.kind # "dict" \/ data.boost.items = <<>> THEN Raise("TypeError")
    ELSE
      LET boost_target == get_boost_target(data.boost, boost_target0)
      IN  IF ~HasTarget(data.boost, boost_target) THEN Raise("KeyError")
          ELSE IF find_variables_in(TargetText(data.boost, boost_target)) = <<>>
          THEN Ret(<<>>)
          ELSE IF data.vars.kind = "absent" THEN Raise("KeyError")
          ELSE IF data.vars.kind # "list" THEN Ret(BAD_FORMAT_VARS_SECTION)
          ELSE
            LET Report(loop) ==
                    LET missing == loop.st.required
                    IN  IF ~loop.go THEN loop.res
                        ELSE IF missing # <<>>
                        THEN HintAt(missing[1].command, missing[1].var,
                                    Format(MISSING_VARIABLE,
                                           <<missing[1].var, <<"target">>,
                                             missing[1].target>>))
                        ELSE Ret(<<>>)
            IN  Report(CheckDeclarations(
                           data.vars.decls, 1,
                           [checked |-> <<>>,
                            required |-> get_required_vars_dict(data.boost.items)]))

\* ORDER IS IMPORTANT AND MUST BE PRESERVED
validations ==
    <<"validate_missing_boost_section", "validate_empty_boost_section",
      "validate_boost_targets_chars", "validate_boost_section_format",
      "validate_variables">>

RunValidation(name, data, boost_target) ==
    CASE name = "validate_missing_boost_section" -> validate_missing_boost_section(data)
      [] name = "validate_empty_boost_section" -> validate_empty_boost_section(data)
      [] name = "validate_boost_targets_chars" -> validate_boost_targets_chars(data)
      [] name = "validate_boost_section_format" -> validate_boost_section_format(data)
      [] OTHER -> validate_variables(data, boost_target)

\* the loop of validate_boost_file: the first error ends it
RECURSIVE RunValidations(_, _, _)
RunValidations(names, data, boost_target) ==
    IF names = <<>> THEN Data
    ELSE LET Decide(error) ==
                 IF error.kind = "raise" \/ error.val # <<>> THEN error
                 ELSE RunValidations(Tail(names), data, boost_target)
         IN  Decide(RunValidation(Head(names), data, boost_target))

BoostFileName == <<"boost.yaml">>

validate_boost_file(data, boost_target) ==
    IF ~data.exists THEN Format(FILE_FOLDER_DOESNT_EXIST, <<BoostFileName>>)
    ELSE RunValidations(validations, data, boost_target)

-----------------------------------------------------------------------------
(* boostbuild/context.py: resolution                                       *)
(*   Objects live in `heap`; a Variable is known by its index there, so    *)
(*   two references are the same object exactly when the indices agree.    *)
(*   The tables general_variables and command_variables are dicts from     *)
(*   name to index, entries [k, v].                                        *)

\* names context.py imports that boostbuild/errors.py does not define
MISSING_VARS_SECTION == <<"MISSING_VARS_SECTION">>

EMPTY_VARS_SECTION == <<"EMPTY_VARS_SECTION">>

\* d[key] = value on an insertion-ordered dict
DictSet(d, key, value) ==
    IF HasKey(d, key)
    THEN [i \in 1..Len(d) |-> IF d[i].k = key THEN [k |-> key, v |-> value] ELSE d[i]]
    ELSE Append(d, [k |-> key, v |-> value])

Variable(name, value, attributes, inner_variables) ==
    [name |-> name, value |-> value, attributes |-> attributes,
     inner_variables |-> inner_variables]

NoAttributes == [v |-> <<>>, str |-> TRUE]

OutVar(id) == [err |-> FALSE, id |-> id, msg |-> <<>>]

OutErr(msg) == [err |-> TRUE, id |-> 0, msg |-> msg]

Resolved(st, outputs, depth) ==
    [raised |-> <<>>, st |-> st, outputs |-> outputs, depth |-> depth]

Aborted(e, st, depth) ==
    [raised |-> <<e>>, st |-> st, outputs |-> <<>>, depth |-> depth]

Max2(x, y) == IF x >= y THEN x ELSE y

\* next((var for var in boost_data["vars"] if variable_key in var), None),
\* as the index of the declaration, 0 for None
FindDeclaration(decls, variable_key) ==
    LET hits == {i \in 1..Len(decls) : HasKey(decls[i], variable_key)}
    IN  IF hits = {} THEN 0 ELSE Min(hits)

\* a resolver that never reuses an allocated Variable
MemoizedNever(general_variables, variable_key) == FALSE

\* if variable was already allocated in general_variables, return it and skip
\* the process
Memoized(general_variables, variable_key) == HasKey(general_variables, variable_key)

\* check_inner_variables at nesting level `depth`; a level beyond
\* RecursionLimit is the interpreter's RecursionError
RECURSIVE check_inner_variables(_, _, _, _)
RECURSIVE ResolveInner(_, _, _, _, _, _, _)

check_inner_variables(vs, st, variable_key, depth) ==
    IF depth > RecursionLimit THEN Aborted("RecursionError", st, depth - 1)
    ELSE IF Memoized(st.general_variables, variable_key)
    THEN Resolved([st EXCEPT !.command_variables =
                       DictSet(@, variable_key, Get(st.general_variables, variable_key).v)],
                  <<OutVar(Get(st.general_variables, variable_key).v)>>, depth)
    ELSE IF vs.kind = "str"
    THEN \* the declarations are the characters of a string
         IF \E i \in 1..Len(vs.str) : Contains(<<vs.str[i]>>, variable_key)
         THEN Aborted("TypeError", st, depth)
         ELSE Aborted("IndexError", st, depth)
    ELSE
      LET di == FindDeclaration(vs.decls, variable_key)
          missing == Format(MISSING_VARIABLE, <<variable_key>>)
      IN  IF di = 0
          THEN IF missing.kind = "raise" THEN Aborted(missing.val[1], st, depth)
               ELSE Resolved(st, <<OutErr(missing.val)>>, depth)
          ELSE IF ~Get(vs.decls[di], variable_key).str
          THEN Aborted("TypeError", st, depth)
          ELSE ResolveInner(vs, st, variable_key, di,
                            find_variables_in(Get(vs.decls[di], variable_key).v),
                            <<>>, depth)

\* the loop over the references of the declared value, then the construction
\* of the Variable; `depth` is the level of the call running the loop
ResolveInner(vs, st, variable_key, di, str_variables, outputs, depth) ==
    IF str_variables = <<>>
    THEN LET found_variable == vs.decls[di]
             id == Len(st.heap) + 1
             attributes == IF HasKey(found_variable, ATTRIBUTES)
                           THEN [v |-> Get(found_variable, ATTRIBUTES).v,
                                 str |-> Get(found_variable, ATTRIBUTES).str]
                           ELSE NoAttributes
             \* inner_variables is the list `outputs` itself, which then
             \* receives the new Variable too
             variable == Variable(variable_key, Get(found_variable, variable_key).v,
                                  attributes,
                                  [i \in 1..(Len(outputs) + 1) |->
                                      IF i <= Len(outputs) THEN outputs[i].id ELSE id])
         IN  Resolved([heap |-> Append(st.heap, variable),
                       command_variables |-> DictSet(st.command_variables, variable_key, id),
                       general_variables |-> DictSet(st.general_variables, variable_key, id)],
                      Append(outputs, OutVar(id)), depth)
    ELSE IF Head(str_variables) = variable_key
    THEN Resolved(st, Append(outputs, OutErr(Format(SELF_VAR_REQUEST, <<variable_key>>).val)),
                  depth)
    ELSE
      LET Continue(inner) ==
              LET errs == {i \in 1..Len(inner.outputs) : inner.outputs[i].err}
              IN  IF inner.raised # <<>> THEN inner
                  ELSE IF errs # {}
                  THEN Resolved(inner.st,
                                outputs \o SubSeq(inner.outputs, 1, Min(errs) - 1)
                                  \o <<OutErr(inner.outputs[Min(errs)].msg
                                                \o <<" from ">> \o variable_key)>>,
                                inner.depth)
                  ELSE [ResolveInner(vs, inner.st, variable_key, di,
                                     Tail(str_variables),
                                     outputs \o inner.outputs, depth)
                           EXCEPT !.depth = Max2(@, inner.depth)]
      IN  Continue(check_inner_variables(vs, st, Head(str_variables), depth + 1))

-----------------------------------------------------------------------------
(* boostbuild/context.py: load_context                                     *)
(*   The returned dict is [has, error, target, vars, commands]: `has` is   *)
(*   the set of keys the dict holds.  heap and depth describe the call:    *)
(*   the Variables it constructed and the deepest nesting of               *)
(*   check_inner_variables it reached.                                     *)

Command(command, variables, args) ==
    [command |-> command, variables |-> variables, args |-> args]

EmptyContext ==
    [kind |-> "ret", val |-> <<>>, has |-> {}, error |-> <<>>, target |-> <<>>,
     vars |-> <<>>, commands |-> <<>>, heap |-> <<>>, depth |-> 0]

ErrorContext(context, error) ==
    [context EXCEPT !.has = @ \cup {"error"}, !.error = error]

RaisedContext(context, e) == [context EXCEPT !.kind = "raise", !.val = <<e>>]

\* the loop over the references of one command line
RECURSIVE ResolveCommand(_, _, _)
ResolveCommand(vs, st, str_variables) ==
    IF str_variables = <<>> THEN Resolved(st, <<>>, 0)
    ELSE LET Continue(variables) ==
                 LET errs == {i \in 1..Len(variables.outputs) : variables.outputs[i].err}
                 IN  IF variables.raised # <<>> \/ errs # {} THEN variables
                     ELSE [ResolveCommand(vs, variables.st, Tail(str_variables))
                              EXCEPT !.depth = Max2(@, variables.depth)]
         IN  Continue(check_inner_variables(vs, st, Head(str_variables), 1))

\* the loop over the command lines of the target
RECURSIVE LoadCommands(_, _, _, _, _)
LoadCommands(data, context, str_commands, general_variables, commands) ==
    IF str_commands = <<>>
    THEN [context EXCEPT !.has = @ \cup {"vars", "commands"},
                         !.vars = general_variables, !.commands = commands]
    ELSE IF data.vars.kind = "absent" THEN ErrorContext(context, MISSING_VARS_SECTION)
    ELSE IF ~VarsTruthy(data.vars) THEN ErrorContext(context, EMPTY_VARS_SECTION)
    ELSE
      LET str_cmd == Head(str_commands)
          Continue(done) ==
              LET errs == {i \in 1..Len(done.outputs) : done.outputs[i].err}
                  context2 == [context EXCEPT !.heap = done.st.heap,
                                              !.depth = Max2(@, done.depth)]
                  words == Split(str_cmd, " ")
              IN  IF done.raised # <<>> THEN RaisedContext(context2, done.raised[1])
                  ELSE IF errs # {}
                  THEN ErrorContext(context2, done.outputs[Min(errs)].msg)
                  ELSE LoadCommands(data, context2, Tail(str_commands),
                                    done.st.general_variables,
                                    Append(commands,
                                           Command(words[1], done.st.command_variables,
                                                   Tail(words))))
      IN  Continue(ResolveCommand(data.vars,
                                  [heap |-> context.heap,
                                   general_variables |-> general_variables,
                                   command_variables |-> <<>>],
                                  find_variables_in(str_cmd)))

load_context(data, boost_target0) ==
    IF ~data.exists
    THEN ErrorContext(EmptyContext, Format(FILE_FOLDER_DOESNT_EXIST, <<BoostFileName>>).val)
    ELSE IF data.boost.kind = "absent"
    THEN ErrorContext(EmptyContext, MISSING_BOOST_SECTION)
    ELSE IF ~BoostTruthy(data.boost)
    THEN ErrorContext(EmptyContext, EMPTY_BOOST_SECTION)
    ELSE IF boost_target0 = <<>> /\ data.boost.kind # "dict"
    THEN RaisedContext(EmptyContext, "AttributeError")
    ELSE IF boost_target0 # <<>> /\ ~InBoost(data.boost, boost_target0)
    THEN ErrorContext(EmptyContext, Format(MISSING_TARGET, <<boost_target0>>).val)
    ELSE
      LET boost_target == IF boost_target0 = <<>> THEN data.boost.items[1][1]
                          ELSE boost_target0
          context == [EmptyContext EXCEPT !.has = {"target"}, !.target = boost_target]
      IN  IF data.boost.kind # "dict" THEN RaisedContext(context, "TypeError")
          ELSE LoadCommands(data, context,
                            Split(Strip(TargetText(data.boost, boost_target)), NL),
                            <<>>, <<>>)

-----------------------------------------------------------------------------
(* boostbuild/context.py: Variable and Command at run time                 *)

MASK == <<"*", "*", "*", "*", "*">>

\* a get_value that forgets the secret flag
GetValueUnmasked(variable, secret) == Ret(variable.value)

\* `"secret" in self.attributes`, a TypeError when attributes is None
get_value(variable, secret) ==
    IF secret /\ ~variable.attributes.str THEN Raise("TypeError")
    ELSE IF secret /\ Contains(variable.attributes.v, SECRET) THEN Ret(MASK)
    ELSE Ret(variable.value)

\* the value one argument expands to
ExpandArgument(command, heap, arg, secret) ==
    IF StartsWith(arg, "{") /\ EndsWith(arg, "}")
    THEN LET name == SubSeq(arg, 2, Len(arg) - 1)
         IN  IF ~HasKey(command.variables, name) THEN Raise("KeyError")
             ELSE get_value(heap[Get(command.variables, name).v], secret)
    ELSE Ret(arg)

\* Ret of the list of expanded arguments, or the first exception
get_arguments(command, heap, secret) ==
    LET Collect(each) ==
            LET failed == {i \in 1..Len(each) : each[i].kind = "raise"}
            IN  IF failed # {} THEN each[Min(failed)]
                ELSE Ret([i \in 1..Len(each) |-> each[i].val])
    IN  Collect([i \in 1..Len(command.args) |->
                    ExpandArgument(command, heap, command.args[i], secret)])

\* Command.__str__
CommandStr(command, heap) ==
    LET Show(args) ==
            IF args.kind = "raise" THEN args
            ELSE Ret(command.command \o <<" ">> \o Join(<<" ">>, args.val))
    IN  Show(get_arguments(command, heap, TRUE))

UNKOWN == <<"u", "n", "k", "o", "w", "n">>

\* the modules of the package boostbuild.cmd
ModuleExists(name) == name = UNKOWN

\* the entry points a module of boostbuild.cmd defines
EntryPoints(module) == IF module = UNKOWN THEN {"win_exec", "posix_exec"} ELSE {}

\* number of positional parameters of an entry point
EntryArity(module, entry) == 1

os_to_function(host) ==
    CASE host = "nt" -> "win_exec"
      [] host = "posix" -> "posix_exec"
      [] OTHER -> ""

Hosts == {"posix", "nt", "java"}

NoCall ==
    [cmd |-> 0, host |-> "", fallback |-> FALSE, entry |-> "", passed |-> <<>>,
     result |-> Ret(<<>>)]

\* the argument list after the import step of call()
ArgsAfterImport(command) ==
    IF ModuleExists(command.command) THEN command.args
    ELSE <<command.command>> \o command.args

\* Command.call: the Command as call() leaves it and what the call did;
\* entry points are called with (args, capture_output)
CommandCall(command, heap, host, i) ==
    LET module == IF ModuleExists(command.command) THEN command.command ELSE UNKOWN
        command2 == [command EXCEPT !.args = ArgsAfterImport(command)]
        call == [NoCall EXCEPT !.cmd = i, !.host = host,
                               !.fallback = ~ModuleExists(command.command)]
        Execute(args) ==
           IF args.kind = "raise" THEN [call EXCEPT !.result = args]
           ELSE IF "generic_exec" \in EntryPoints(module)
           THEN [call EXCEPT !.entry = "generic_exec", !.passed = args.val,
                             !.result = IF EntryArity(module, "generic_exec") # 2
                                        THEN Raise("TypeError") ELSE Ret(<<"output">>)]
           ELSE IF os_to_function(host) = ""
           THEN [call EXCEPT !.result = Format(UNSUPORTED_OS, <<<<"<module>">>>>)]
           ELSE IF os_to_function(host) \notin EntryPoints(module)
           THEN [call EXCEPT !.result = Raise("AttributeError")]
           ELSE [call EXCEPT !.entry = os_to_function(host), !.passed = args.val,
                             !.result = IF EntryArity(module, os_to_function(host)) # 2
                                        THEN Raise("TypeError") ELSE Ret(<<"output">>)]
    IN  [command |-> command2,
         call |-> Execute(get_arguments(command2, heap, FALSE))]

-----------------------------------------------------------------------------
(* Inputs: boost files and target selectors                                *)

Entry(k, v) == [k |-> k, v |-> v, str |-> TRUE]

VarA == <<"a">>

VarB == <<"b">>

RefA == <<"{", "a", "}">>

RefB == <<"{", "b", "}">>

\* the command lines: "run x", "run {a}", "echo {b} p{a}q", "run {a}{b}"
Lines ==
    { <<"r","u","n"," ","x">>,
      <<"r","u","n"," ">> \o RefA,
      <<"e","c","h","o"," ">> \o RefB \o <<" ","p">> \o RefA \o <<"q">>,
      <<"r","u","n"," ">> \o RefA \o RefB }

\* the declarations: a literal, a reference to itself (first or second in the
\* value), a reference to the other variable, a secret, a command to execute,
\* two variables in one declaration, attributes alone
DeclPool ==
    { <<Entry(VarA, <<"v">>)>>,
      <<Entry(VarA, RefA)>>,
      <<Entry(VarA, RefB)>>,
      <<Entry(VarA, RefB \o <<" ">> \o RefA)>>,
      <<Entry(VarB, <<"v">>)>>,
      <<Entry(VarB, RefA)>>,
      <<Entry(VarB, <<"w">>), Entry(ATTRIBUTES, SECRET)>>,
      <<Entry(VarA, <<"l", "s">>), Entry(ATTRIBUTES, EXEC)>>,
      <<Entry(VarA, <<"v">>), Entry(VarB, <<"v">>)>>,
      <<Entry(ATTRIBUTES, SECRET)>> }

\* the name of the target declared at position pos
TargetNamesAt(pos) ==
    CASE pos = 1 -> {<<"t">>}
      [] pos = 2 -> {<<"u">>, <<"u", "%">>}
      [] OTHER -> {<<"w">>}

\* a block of k command lines, each ended by a line break
Texts(k) == {Concat([i \in 1..k |-> f[i] \o <<NL>>]) : f \in [1..k -> Lines]}

\* the targets sections that hold at most `budget` command lines in all
RECURSIVE TargetSections(_, _)
TargetSections(budget, pos) ==
    {<<>>} \cup
    UNION {{<<<<name, text>>>> \o rest :
               name \in TargetNamesAt(pos), text \in Texts(k),
               rest \in TargetSections(budget - k, pos + 1)} : k \in 1..budget}

BoostDict(items) == [kind |-> "dict", str |-> <<>>, elems |-> <<>>, items |-> items]

BoostValues ==
    {BoostDict(items) : items \in TargetSections(MaxLines, 1)} \cup
    { [kind |-> "absent", str |-> <<>>, elems |-> <<>>, items |-> <<>>],
      [kind |-> "str", str |-> <<>>, elems |-> <<>>, items |-> <<>>],
      [kind |-> "str", str |-> <<"r","u","n"," ","u">>, elems |-> <<>>, items |-> <<>>],
      [kind |-> "list", str |-> <<>>, elems |-> <<<<"u">>>>, items |-> <<>>] }

VarsValues ==
    {[kind |-> "list", str |-> <<>>, decls |-> ds] :
        ds \in UNION {[1..n -> DeclPool] : n \in 0..MaxDecls}} \cup
    { [kind |-> "absent", str |-> <<>>, decls |-> <<>>],
      [kind |-> "none", str |-> <<>>, decls |-> <<>>] }

NoFile ==
    [exists |-> FALSE,
     boost |-> [kind |-> "absent", str |-> <<>>, elems |-> <<>>, items |-> <<>>],
     vars |-> [kind |-> "absent", str |-> <<>>, decls |-> <<>>]]

BoostFiles ==
    {[exists |-> TRUE, boost |-> b, vars |-> v] : b \in BoostValues, v \in VarsValues}
        \cup {NoFile}

\* no selector, the second target, a target nobody declares
Selectors == {<<>>, <<"u">>, <<"z", "z">>}

-----------------------------------------------------------------------------
(* Inputs of the functions applied on their own                            *)
(*   input is [fn, content, str, position]: the function, its string       *)
(*   argument, whether that argument is a Python string, and the position  *)
(*   argument; output is [done, val].                                      *)

NoInput == [fn |-> "", content |-> <<>>, str |-> TRUE, position |-> 0]

NoOutput == [done |-> FALSE, val |-> <<>>]

\* the texts scanned for references
ScanAlphabet == {"{", "}", "a", NL}

ScanTexts == UNION {[1..n -> ScanAlphabet] : n \in 0..MaxText}

ScanInputs == {[NoInput EXCEPT !.fn = "find_variables_in", !.content = t] : t \in ScanTexts}

\* the source lines of a hint: the reference {a} with text around it
HintPads == UNION {[1..n -> {" ", "x"}] : n \in 0..MaxPad}

HintMessage == <<"message">>

HintInputs ==
    {[NoInput EXCEPT !.fn = "build_error_hinting",
                     !.content = pre \o RefA \o post,
                     !.position = Index(pre \o RefA \o post, RefA)] :
        pre \in HintPads, post \in HintPads}

\* the values of an attributes key: strings made of names, commas and a
\* character outside the whitelist, and two values that are not strings
AttributeTokens == {SECRET, EXEC, <<"x">>, <<",">>, <<"%">>}

AttributeTexts == {Concat(f) : f \in UNION {[1..n -> AttributeTokens] : n \in 0..MaxTokens}}

AttributeInputs ==
    {[NoInput EXCEPT !.fn = "attribute_validations", !.content = t] : t \in AttributeTexts}
      \cup {[NoInput EXCEPT !.fn = "attribute_validations", !.content = t, !.str = FALSE] :
                t \in {<<"None">>, <<"['secret']">>}}

-----------------------------------------------------------------------------
(* The run: validate the file, build the context, call its commands        *)

Init ==
    /\ cfg \in BoostFiles
    /\ sel \in Selectors
    /\ pc = "start"
    /\ vres = Data
    /\ ctx = EmptyContext
    /\ lastCall = NoCall
    /\ ncalls = 0
    /\ input = NoInput
    /\ output = NoOutput

Validate ==
    /\ pc = "start"
    /\ vres' = validate_boost_file(cfg, sel)
    /\ pc' = "validated"
    /\ UNCHANGED <<cfg, sel, ctx, lastCall, ncalls, input, output>>

LoadContext ==
    /\ pc = "validated"
    /\ ctx' = load_context(cfg, sel)
    /\ pc' = "loaded"
    /\ UNCHANGED <<cfg, sel, vres, lastCall, ncalls, input, output>>

Call(i, host) ==
    /\ pc = "loaded"
    /\ ctx.kind = "ret"
    /\ i \in 1..Len(ctx.commands)
    /\ ncalls < MaxCalls
    /\ LET Record(done) ==
               /\ ctx' = [ctx EXCEPT !.commands[i] = done.command]
               /\ lastCall' = done.call
       IN  Record(CommandCall(ctx.commands[i], ctx.heap, host, i))
    /\ ncalls' = ncalls + 1
    /\ UNCHANGED <<cfg, sel, pc, vres, input, output>>

Next ==
    \/ Validate
    \/ LoadContext
    \/ \E i \in 1..MaxLines, host \in Hosts : Call(i, host)

Spec == Init /\ [][Next]_vars

-----------------------------------------------------------------------------
(* The functions applied on their own                                      *)

FunctionsInit ==
    /\ input \in ScanInputs \cup HintInputs \cup AttributeInputs
    /\ output = NoOutput
    /\ cfg = NoFile
    /\ sel = <<>>
    /\ pc = "start"
    /\ vres = Data
    /\ ctx = EmptyContext
    /\ lastCall = NoCall
    /\ ncalls = 0

FindVariables ==
    /\ input.fn = "find_variables_in"
    /\ ~output.done
    /\ output' = [done |-> TRUE, val |-> find_variables_in(input.content)]
    /\ UNCHANGED <<cfg, sel, pc, vres, ctx, lastCall, ncalls, input>>

BuildErrorHinting ==
    /\ input.fn = "build_error_hinting"
    /\ ~output.done
    /\ output' = [done |-> TRUE,
                  val |-> build_error_hinting(input.content, input.position, HintMessage)]
    /\ UNCHANGED <<cfg, sel, pc, vres, ctx, lastCall, ncalls, input>>

\* the loop over attribute_validations for one attributes value
ValidateAttributeValue ==
    /\ input.fn = "attribute_validations"
    /\ ~output.done
    /\ output' = [done |-> TRUE,
                  val |-> ValidateAttributes(attribute_validations,
                                             [v |-> input.content, str |-> input.str])]
    /\ UNCHANGED <<cfg, sel, pc, vres, ctx, lastCall, ncalls, input>>

FunctionsNext ==
    \/ FindVariables
    \/ BuildErrorHinting
    \/ ValidateAttributeValue

Functions == FunctionsInit /\ [][FunctionsNext]_vars

-----------------------------------------------------------------------------
(* Vocabulary of the properties                                            *)

Validated == pc # "start"

Loaded == pc = "loaded"

\* the first four checks of the pipeline report nothing
StructureAccepted ==
    /\ cfg.exists
    /\ \A k \in 1..4 : RunValidation(validations[k], cfg, sel) = Ret(<<>>)

\* the target the selector stands for
SelectedTarget == get_boost_target(cfg.boost, sel)

\* the selected target is declared and its commands hold a {..} reference
SelectedTargetHasReference ==
    /\ HasTarget(cfg.boost, SelectedTarget)
    /\ find_variables_in(TargetText(cfg.boost, SelectedTarget)) # <<>>

\* the entries of a declaration that declare a variable
DataEntries(decl) == {decl[i] : i \in {j \in 1..Len(decl) : decl[j].k # ATTRIBUTES}}

DeclaredNames == UNION {{e.k : e \in DataEntries(d)} : d \in Range(cfg.vars.decls)}

\* the references of the command text, first appearances in order
TargetReferences == get_required_vars_dict(cfg.boost.items)

\* the declared variables whose value refers to the variable itself
SelfReferencing ==
    UNION {{e \in DataEntries(d) : e.k \in Range(find_variables_in(e.v))} :
              d \in Range(cfg.vars.decls)}

\* every reference, in a command or in a declared value, is declared
AllReferencesDeclared ==
    /\ \A i \in 1..Len(TargetReferences) : TargetReferences[i].var \in DeclaredNames
    /\ \A d \in Range(cfg.vars.decls) : \A e \in DataEntries(d) :
           Range(find_variables_in(e.v)) \subseteq DeclaredNames

-----------------------------------------------------------------------------
(* Properties                                                              *)

\* C1: when the structure checks pass, the selected target holds a reference,
\* every reference is declared and some declared value refers to its own
\* variable (at any position of the value), validation returns the
\* SELF_VAR_REQUEST error, with its hint, for such a variable.
C1_SelfReferenceRejected ==
    (/\ Validated
     /\ StructureAccepted
     /\ SelectedTargetHasReference
     /\ cfg.vars.kind = "list"
     /\ AllReferencesDeclared
     /\ SelfReferencing # {})
    => \E e \in SelfReferencing :
           vres = HintAt(e.v, e.k, Format(SELF_VAR_REQUEST, <<e.k>>))

\* C2: when the validator accepts the file, building the context does not end
\* in a RecursionError and check_inner_variables never nests deeper than the
\* number of distinct declared variable names.
C2_ResolutionDepthBounded ==
    (Loaded /\ vres.kind = "data")
    => /\ ~(ctx.kind = "raise" /\ ctx.val = <<"RecursionError">>)
       /\ ctx.depth <= Cardinality(DeclaredNames)

\* the first reference of the command text that no declaration declares
FirstMissing ==
    TargetReferences[Min({i \in 1..Len(TargetReferences) :
                             TargetReferences[i].var \notin DeclaredNames})]

\* the declarations themselves raise no error: there are none, or the loop
\* over them runs to its end
DeclarationsAccepted ==
    \/ cfg.vars.kind = "absent"
    \/ /\ cfg.vars.kind = "list"
       /\ CheckDeclarations(cfg.vars.decls, 1,
                            [checked |-> <<>>, required |-> TargetReferences]).go

\* C3: when the structure checks pass, the selected target holds a reference,
\* the declarations (if any) are accepted and some variable referenced by the
\* command text of any target is declared by no entry of the vars section
\* (also when there is no vars section), validation returns MISSING_VARIABLE
\* for the first such variable, with the target and the command line of its
\* first appearance, rendered with the positional hint.
C3_MissingVariableReported ==
    (/\ Validated
     /\ StructureAccepted
     /\ SelectedTargetHasReference
     /\ DeclarationsAccepted
     /\ \E i \in 1..Len(TargetReferences) : TargetReferences[i].var \notin DeclaredNames)
    => vres = HintAt(FirstMissing.command, FirstMissing.var,
                     Format(MISSING_VARIABLE,
                            <<FirstMissing.var, <<"target">>, FirstMissing.target>>))

\* the checks of the pipeline that, run on the file, report an error
ReportingChecks ==
    {k \in 1..Len(validations) :
        LET r == RunValidation(validations[k], cfg, sel)
        IN  r.kind = "ret" /\ r.val # <<>>}

\* C4: validate_boost_file returns the error of the earliest check, in the
\* fixed order, that reports an error on the file, and returns the parsed data
\* only when every check passes.
C4_EarliestCheckDecides ==
    (Validated /\ cfg.exists)
    => /\ ReportingChecks # {}
            => vres = RunValidation(validations[Min(ReportingChecks)], cfg, sel)
       /\ vres.kind = "data"
            => \A k \in 1..Len(validations) :
                   RunValidation(validations[k], cfg, sel) = Ret(<<>>)

\* C5: with the structure checks passed, a selector that names no declared
\* target makes the validator return MISSING_TARGET for it, and an empty
\* selector validates as the first declared target does; load_context returns
\* MISSING_TARGET for an undeclared selector and otherwise records the first
\* declared target (empty selector) or the selected one.
C5_TargetResolution ==
    /\ (Validated /\ StructureAccepted)
       => /\ (sel # <<>> /\ ~HasTarget(cfg.boost, sel))
                => vres = Format(MISSING_TARGET, <<sel>>)
          /\ sel = <<>> => vres = validate_boost_file(cfg, cfg.boost.items[1][1])
    /\ (Loaded /\ StructureAccepted)
       => /\ (sel # <<>> /\ ~HasTarget(cfg.boost, sel))
                => (ctx.kind = "ret" /\ "error" \in ctx.has
                    /\ ctx.error = Format(MISSING_TARGET, <<sel>>).val)
          /\ (sel = <<>> /\ ctx.kind = "ret")
                => ("target" \in ctx.has /\ ctx.target = cfg.boost.items[1][1])
          /\ (HasTarget(cfg.boost, sel) /\ ctx.kind = "ret")
                => ("target" \in ctx.has /\ ctx.target = sel)

\* C6: a context returned by load_context holds either the error alone or
\* target, vars and commands without an error.
C6_ContextShape ==
    (Loaded /\ ctx.kind = "ret")
    => ctx.has \in {{"error"}, {"target", "vars", "commands"}}

\* C7: one load_context call constructs at most one Variable per name; every
\* entry of a Command's variables map is the object of that name, and it is
\* the object the context's vars table holds under that name.
C7_ResolveOnceShared ==
    Loaded
    => /\ \A i, j \in 1..Len(ctx.heap) :
              ctx.heap[i].name = ctx.heap[j].name => i = j
       /\ \A c \in 1..Len(ctx.commands) : \A e \in Range(ctx.commands[c].variables) :
              /\ ctx.heap[e.v].name = e.k
              /\ HasKey(ctx.vars, e.k)
              /\ Get(ctx.vars, e.k).v = e.v

\* a context whose commands share a Variable that another Variable lists too
C7_Witness ==
    /\ Loaded
    /\ "commands" \in ctx.has
    /\ \E c1, c2 \in 1..Len(ctx.commands) :
          /\ c1 # c2
          /\ \E e \in Range(ctx.commands[c1].variables) :
                /\ HasKey(ctx.commands[c2].variables, e.k)
                /\ Get(ctx.commands[c2].variables, e.k).v = e.v
                /\ \E o \in 1..Len(ctx.heap) :
                      o # e.v /\ e.v \in Range(ctx.heap[o].inner_variables)

\* C8: when two different commands both hold a variable a whose value
\* references b, both commands' variables maps hold b, as the same object.
C8_InnerSharedAcrossCommands ==
    (Loaded /\ "commands" \in ctx.has)
    => \A c1, c2 \in 1..Len(ctx.commands) :
           c1 # c2
           => \A e \in Range(ctx.commands[c1].variables) :
                  HasKey(ctx.commands[c2].variables, e.k)
                  => \A b \in Range(find_variables_in(ctx.heap[e.v].value)) :
                         /\ HasKey(ctx.commands[c1].variables, b)
                         /\ HasKey(ctx.commands[c2].variables, b)
                         /\ Get(ctx.commands[c1].variables, b).v
                              = Get(ctx.commands[c2].variables, b).v

\* the Command as load_context built it
OriginalCommand(i) == load_context(cfg, sel).commands[i]

\* C9: every call() that falls back to the unknown-command executor hands it
\* the command name, once, followed by the expanded original arguments.
C9_FallbackArgumentsOnce ==
    (lastCall.cmd # 0 /\ lastCall.fallback /\ lastCall.entry # "")
    => lastCall.passed
         = <<OriginalCommand(lastCall.cmd).command>>
             \o get_arguments(OriginalCommand(lastCall.cmd), ctx.heap, FALSE).val

\* the attributes name `secret`
SecretAttributed(attributes) ==
    attributes.str /\ SECRET \in Range(Split(attributes.v, ","))

\* the argument is a reference, as a whole token, to a secret variable
SecretToken(command, heap, arg) ==
    /\ StartsWith(arg, "{") /\ EndsWith(arg, "}")
    /\ HasKey(command.variables, SubSeq(arg, 2, Len(arg) - 1))
    /\ SecretAttributed(heap[Get(command.variables, SubSeq(arg, 2, Len(arg) - 1)).v].attributes)

SecretDeclaration(decl) ==
    /\ HasKey(decl, ATTRIBUTES)
    /\ SecretAttributed([v |-> Get(decl, ATTRIBUTES).v, str |-> Get(decl, ATTRIBUTES).str])

\* the values tried for a secret variable
SecretValues == {<<"w">>, <<"z">>, <<"v", " ", "w">>, RefA}

\* the files that differ from data only in the values of secret variables
SecretVariants(data) ==
    {[data EXCEPT !.vars.decls =
         [i \in 1..Len(data.vars.decls) |->
             IF SecretDeclaration(data.vars.decls[i])
             THEN [j \in 1..Len(data.vars.decls[i]) |->
                      IF data.vars.decls[i][j].k # ATTRIBUTES
                      THEN [data.vars.decls[i][j] EXCEPT !.v = f[i]]
                      ELSE data.vars.decls[i][j]]
             ELSE data.vars.decls[i]]] :
        f \in [1..Len(data.vars.decls) -> SecretValues]}

\* str() of every Command of a context
DisplayStrings(context) ==
    [i \in 1..Len(context.commands) |-> CommandStr(context.commands[i], context.heap)]

\* C10: str(Command) shows the mask for every whole-token reference to a
\* secret variable and the call-time expansion for every other argument, while
\* the call-time expansion of the reference is the real value; two files that
\* differ only in the values of secret variables give the same strings.
C10_SecretsMasked ==
    (Loaded /\ "commands" \in ctx.has)
    => /\ \A c \in 1..Len(ctx.commands) :
            LET command == ctx.commands[c]
                shown == CommandStr(command, ctx.heap)
                called == get_arguments(command, ctx.heap, FALSE)
            IN  /\ \A k \in 1..Len(command.args) :
                       SecretToken(command, ctx.heap, command.args[k])
                       => /\ ExpandArgument(command, ctx.heap, command.args[k], TRUE)
                               = Ret(MASK)
                          /\ ExpandArgument(command, ctx.heap, command.args[k], FALSE)
                               = Ret(ctx.heap[Get(command.variables,
                                                 SubSeq(command.args[k], 2,
                                                        Len(command.args[k]) - 1)).v].value)
                /\ called.kind = "ret"
                       => shown = Ret(command.command \o <<" ">> \o
                                      Join(<<" ">>,
                                           [k \in 1..Len(command.args) |->
                                               IF SecretToken(command, ctx.heap, command.args[k])
                                               THEN MASK ELSE called.val[k]]))
       /\ ncalls = 0
            => \A other \in SecretVariants(cfg) :
                   LET context == load_context(other, sel)
                   IN  (context.kind = "ret" /\ "commands" \in context.has)
                       => DisplayStrings(context) = DisplayStrings(ctx)

\* a command shows a masked secret, and another value of the secret gives a
\* context as well
C10_Witness ==
    /\ Loaded
    /\ ncalls = 0
    /\ "commands" \in ctx.has
    /\ \E c \in 1..Len(ctx.commands) :
          /\ \E k \in 1..Len(ctx.commands[c].args) :
                SecretToken(ctx.commands[c], ctx.heap, ctx.commands[c].args[k])
          /\ CommandStr(ctx.commands[c], ctx.heap).kind = "ret"
    /\ \E other \in SecretVariants(cfg) :
          /\ other # cfg
          /\ "commands" \in load_context(other, sel).has

\* the attributes name `exec`
ExecAttributed(attributes) ==
    attributes.str /\ EXEC \in Range(Split(attributes.v, ","))

\* the Variables a Variable lists as inner under the given name
InnerNamed(heap, variable, name) ==
    {id \in Range(variable.inner_variables) : heap[id].name = name}

\* C11: for a Variable of a loaded context that is neither masked nor
\* exec-attributed and whose value holds a reference, get_value(secret) is
\* get_value(secret) of the inner Variable named by the first reference.
C11_NestedReferencePassThrough ==
    (Loaded /\ "commands" \in ctx.has)
    => \A id \in 1..Len(ctx.heap), secret \in BOOLEAN :
           LET variable == ctx.heap[id]
               refs == find_variables_in(variable.value)
           IN  (/\ refs # <<>>
                /\ ~(secret /\ SecretAttributed(variable.attributes))
                /\ ~ExecAttributed(variable.attributes))
               => \E other \in InnerNamed(ctx.heap, variable, refs[1]) :
                      get_value(variable, secret) = get_value(ctx.heap[other], secret)

\* C12: for a Variable of a loaded context whose attributes hold exec and that
\* is not being masked, get_value does not return the declared command text
\* (it returns what running that text printed).
C12_ExecValueIsOutput ==
    (Loaded /\ "commands" \in ctx.has)
    => \A id \in 1..Len(ctx.heap), secret \in BOOLEAN :
           (/\ ExecAttributed(ctx.heap[id].attributes)
            /\ ~(secret /\ SecretAttributed(ctx.heap[id].attributes)))
           => get_value(ctx.heap[id], secret) # Ret(ctx.heap[id].value)

\* the argument is exactly one reference {name}: nothing before the opening
\* brace, nothing after the closing brace
WholeToken(arg) ==
    /\ find_variables_in(arg) # <<>>
    /\ arg = <<"{">> \o find_variables_in(arg)[1] \o <<"}">>

\* C13: the call-time expansion of a Command built by load_context keeps the
\* number and order of the arguments, replaces an argument that is exactly
\* {name} by the value of variables[name], and leaves every other argument as
\* it is.
C13_WholeTokenSubstitution ==
    (Loaded /\ "commands" \in ctx.has /\ ncalls = 0)
    => \A c \in 1..Len(ctx.commands) :
           LET command == ctx.commands[c]
           IN  get_arguments(command, ctx.heap, FALSE)
                 = Ret([k \in 1..Len(command.args) |->
                          IF WholeToken(command.args[k])
                          THEN ctx.heap[Get(command.variables,
                                            find_variables_in(command.args[k])[1]).v].value
                          ELSE command.args[k]])

\* the executor module call() resolves for a command name
ExecutorOf(name) == IF ModuleExists(name) THEN name ELSE UNKOWN

\* what an entry point returns when it runs: the output it captured
EntryPointResult == Ret(<<"output">>)

\* the last call() got as far as choosing an entry point
Dispatched ==
    /\ lastCall.cmd # 0
    /\ ~(lastCall.entry = "" /\ lastCall.result.kind = "raise")

\* C14: a call() whose arguments expand invokes the generic entry point when
\* the executor has one, otherwise win_exec on an nt host and posix_exec on a
\* posix host, and returns what that entry point returns; it returns
\* UNSUPORTED_OS, with no entry point invoked, exactly when the executor has no
\* generic entry point and the host is neither nt nor posix.
C14_ExecutorDispatch ==
    Dispatched
    => LET module == ExecutorOf(OriginalCommand(lastCall.cmd).command)
           generic == "generic_exec" \in EntryPoints(module)
           unsupported == ~generic /\ lastCall.host \notin {"nt", "posix"}
       IN  /\ generic => lastCall.entry = "generic_exec"
           /\ (~generic /\ lastCall.host = "nt") => lastCall.entry = "win_exec"
           /\ (~generic /\ lastCall.host = "posix") => lastCall.entry = "posix_exec"
           /\ lastCall.entry # "" => lastCall.result = EntryPointResult
           /\ unsupported => lastCall.entry = ""
           /\ unsupported
                <=> (lastCall.result.kind = "ret"
                     /\ \E name \in {<<"<module>">>, module} :
                            lastCall.result = Format(UNSUPORTED_OS, <<name>>))

\* the command text of the selected target holds no reference
SelectedTargetWithoutReference ==
    /\ StructureAccepted
    /\ HasTarget(cfg.boost, SelectedTarget)
    /\ find_variables_in(TargetText(cfg.boost, SelectedTarget)) = <<>>

\* C15: when the selected target's command text holds no reference,
\* validation passes and load_context returns a context without error, with
\* one Command per command line and an empty vars table, whatever the vars
\* section is.
C15_NoReferenceNoVariableCheck ==
    SelectedTargetWithoutReference
    => /\ Validated => vres = Data
       /\ Loaded
            => /\ ctx.kind = "ret"
               /\ ctx.has = {"target", "vars", "commands"}
               /\ ctx.vars = <<>>
               /\ Len(ctx.commands)
                    = Len(Split(Strip(TargetText(cfg.boost, SelectedTarget)), NL))

\* C16: for a file whose boost section is present and non-empty but is not a
\* mapping, validate_boost_file returns BAD_FORMAT_BOOST_SECTION.
C16_BoostSectionShape ==
    (/\ Validated
     /\ cfg.exists
     /\ cfg.boost.kind \in {"str", "list"}
     /\ BoostTruthy(cfg.boost))
    => vres = Ret(BAD_FORMAT_BOOST_SECTION)

\* the keys of a declaration other than attributes, in order
DataKeys(decl) ==
    SelectSeq([i \in 1..Len(decl) |-> decl[i].k], LAMBDA key : key # ATTRIBUTES)

\* the variable checks run: the structure is accepted, the selected target
\* holds a reference and the vars section is a list
VariableChecksRun ==
    /\ Validated
    /\ StructureAccepted
    /\ SelectedTargetHasReference
    /\ cfg.vars.kind = "list"

\* C17: when the variable checks run, validation succeeds only if every
\* declaration has exactly one key other than attributes, and an UNKOWN_KEY
\* error names the second such key of a declaration.
C17_OneDataKeyPerDeclaration ==
    VariableChecksRun
    => /\ vres = Data => \A d \in Range(cfg.vars.decls) : Len(DataKeys(d)) = 1
       /\ (\E d \in Range(cfg.vars.decls) : \E e \in Range(d) :
               vres = Format(UNKOWN_KEY, <<e.k>>))
            => \E d \in Range(cfg.vars.decls) :
                   /\ Len(DataKeys(d)) >= 2
                   /\ vres = Format(UNKOWN_KEY, <<DataKeys(d)[2]>>)

\* the attribute names the claim allows
AttributeNames == {SECRET, EXEC}

\* the comma-separated lists of attribute names
AttributeLists ==
    {Join(<<",">>, f) : f \in UNION {[1..n -> AttributeNames] : n \in 1..MaxTokens}}

\* C18: the attribute checks applied to one attributes value return
\* BAD_FORMAT_ATTRIBUTES for a value that is not a string, else
\* NOT_ALLOWED_CHARACTERS for a string with a character other than ASCII
\* letters and the comma, else UNSUPPORTED_VAR_ATTRIBUTE for the first
\* comma-separated element outside {secret, exec}; the value is accepted
\* exactly when it is a comma-separated list of names from {secret, exec}.
C18_AttributeValidation ==
    (input.fn = "attribute_validations" /\ output.done)
    => LET value == input.content
           elements == Split(value, ",")
           badChars == \E c \in Range(value) : c \notin AsciiLetters \cup {","}
           offending == {i \in 1..Len(elements) : elements[i] \notin AttributeNames}
       IN  /\ ~input.str
                => output.val = Format(BAD_FORMAT_ATTRIBUTES, <<value, <<"attributes">>>>)
           /\ (input.str /\ badChars)
                => output.val = Format(NOT_ALLOWED_CHARACTERS,
                                       <<<<"attributes">>, value, AttributesWhitelistText>>)
           /\ (input.str /\ ~badChars /\ offending # {})
                => output.val = Format(UNSUPPORTED_VAR_ATTRIBUTE,
                                       <<elements[Min(offending)], <<"attributes">>>>)
           /\ output.val = Ret(<<>>) <=> (input.str /\ value \in AttributeLists)

\* the checks ran on a string that fails both the charset check and the
\* supported-set check, and reported an error
C18_Witness ==
    /\ input.fn = "attribute_validations"
    /\ output.done
    /\ input.str
    /\ "%" \in Range(input.content)
    /\ \E e \in Range(Split(input.content, ",")) : e \notin AttributeNames
    /\ output.val.kind = "ret"
    /\ output.val.val # <<>>

\* the position of the first c in s at or after position from (1-based), 0
\* when there is none
RECURSIVE FirstAt(_, _, _)
FirstAt(s, c, from) ==
    IF from > Len(s) THEN 0
    ELSE IF s[from] = c THEN from
    ELSE FirstAt(s, c, from + 1)

\* the non-overlapping spans of s from position from on: the text strictly
\* between each "{" and the next "}" after it, left to right
RECURSIVE SpansFrom(_, _)
SpansFrom(s, from) ==
    LET open == FirstAt(s, "{", from)
        close == IF open = 0 THEN 0 ELSE FirstAt(s, "}", open + 1)
    IN  IF open = 0 \/ close = 0 THEN <<>>
        ELSE <<SubSeq(s, open + 1, close - 1)>> \o SpansFrom(s, close + 1)

\* C19: for every text find_variables_in returns, in left-to-right order, the
\* text strictly between each "{" and the next "}" after it, one element per
\* non-overlapping span: duplicates kept, the empty string for {}, the empty
\* list for a text with no complete span.
C19_Scanner ==
    (input.fn = "find_variables_in" /\ output.done)
    => output.val = SpansFrom(input.content, 1)

\* the marker line the hint is required to hold for a source string s and
\* a position p (0-based): as long as s, "^" at index p, "-" elsewhere
MarkerLine(s, p) == [i \in 1..Len(s) |-> IF i - 1 = p THEN "^" ELSE "-"]

\* the second line of a hint
SecondLine(hint) ==
    LET first == FirstAt(hint, NL, 1)
        second == FirstAt(hint, NL, first + 1)
    IN  SubSeq(hint, first + 1, second - 1)

\* C20: for every source string s, leading or trailing spaces included, and
\* the position p of the offending {name} in s, build_error_hinting returns
\* s, a line break, a marker line as long as s with "^" at index p and "-" at
\* every other index, a line break and the message; the marker line holds
\* exactly one "^".
C20_PositionalHint ==
    (input.fn = "build_error_hinting" /\ output.done)
    => /\ output.val = input.content \o <<NL>>
                         \o MarkerLine(input.content, input.position)
                         \o <<NL>> \o HintMessage
       /\ Cardinality({i \in 1..Len(SecondLine(output.val)) :
                          SecondLine(output.val)[i] = "^"}) = 1

\* the argument starts with "{" and ends with "}"
BraceDelimited(arg) == StartsWith(arg, "{") /\ EndsWith(arg, "}")

\* C21: on a Context that load_context returned without error, expanding the
\* arguments of each Command (get_arguments, and so call() and str()) never
\* fails on a variable lookup: every argument that starts with "{" and ends
\* with "}" names, by the text between those two braces, a key of the
\* Command's variables map, arguments with several references in one token
\* such as {a}{b} included.
C21_ExpansionCannotFail ==
    (Loaded /\ "commands" \in ctx.has)
    => /\ \A c \in 1..Len(ctx.commands) :
              LET command == ctx.commands[c]
              IN  /\ \A k \in 1..Len(command.args) :
                         BraceDelimited(command.args[k])
                         => HasKey(command.variables,
                                   SubSeq(command.args[k], 2, Len(command.args[k]) - 1))
                  /\ \A secret \in BOOLEAN :
                         get_arguments(command, ctx.heap, secret) # Raise("KeyError")
                  /\ CommandStr(command, ctx.heap) # Raise("KeyError")
       /\ lastCall.result # Raise("KeyError")

====
